---- MODULE Spec2Model ----
(***************************************************************************)
(* Model of remindme/commands/reminder.py (ReminderCommands): the reminder *)
(* list kept in config.reminders, the command handlers that read and       *)
(* rewrite it, and the time/text parser of _create_reminder.               *)
(*                                                                         *)
(* A command text is a sequence of words separated by single spaces, so    *)
(* word k (1-based) of the text sits at index 2*(k-1) of full_split, the   *)
(* result of split_all.split (line 217), and the odd indexes hold the      *)
(* whitespace.  A reminder text is kept as its sequence of words.          *)
(*                                                                         *)
(* Every handler is a coroutine: it can be suspended at each access to the *)
(* config (get_user_reminders, "async with self.config.reminders()") and   *)
(* at the confirmation wait, so a handler is one action per stretch of     *)
(* code between two such points.                                           *)
(*                                                                         *)
(* get_user_reminders and get_next_user_reminder_id belong to the cog but  *)
(* not to this file; they follow the written specification.  The me_too    *)
(* solicitation that ends _create_reminder (lines 301-313) runs only in a  *)
(* guild that has the me_too setting on and lets the bot add reactions;    *)
(* the variable me_too is that condition, fixed for a run.                 *)
(***************************************************************************)
EXTENDS Integers, Sequences, FiniteSets, TLC

\* ---------------------------------------------------------------- bounds
\* The clock runs from 0 to MaxNow seconds.
MaxNow == 1
\* Number of accepted create and modify commands in a run whose commands
\* overlap, and in a run whose commands come one at a time.  The number of
\* the command message is its jump_url.
MaxOverlapMessages == 2
MaxSerialMessages == 3
\* config.max_user_reminders (line 188); the shipped default is larger.
MaxUserReminders == 2
\* Longest command text, in words, of the run that tries every text.
MaxWords == 4

\* ------------------------------------------------------- program constants
\* len(text) > 1000 (lines 131, 278)
MaxTextLen == 1000
\* minimum=timedelta(minutes=1) (lines 100, 272), in seconds
MinimumSeconds == 60

Users == {"alice", "bob"}
Tasks == {1, 2}

\* ------------------------------------------------------------ vocabulary
\* "lorem" stands for one word of 1001 letters.
LongWord == "lorem"
DigitTokens == {"0", "1", "2", "3", "30"}
\* Tokens that are letters only.
AlphaTokens == {"in", "to", "and", "hours", "seconds", "minutes", "day", "weeks",
                "do", "dishes", "call", "mom", "soon", LongWord}
\* Tokens mixing digits and letters, or carrying punctuation.
OtherTokens == {"2h", "1st", "hours,", "-"}
Vocabulary == DigitTokens \cup AlphaTokens \cup OtherTokens

\* alpha_num.sub("", chunk): drop every character that is not a letter or digit.
StripNonAlnum(chunk) ==
    CASE chunk = "hours," -> "hours"
      [] chunk = "-" -> ""
      [] OTHER -> chunk

\* str.isdigit / str.isalpha
IsDigit(chunk) == chunk \in DigitTokens
IsAlpha(chunk) == chunk \in AlphaTokens

\* int(v) of a digit group
NumVal(d) ==
    CASE d = "0" -> 0 [] d = "1" -> 1 [] d = "2" -> 2 [] d = "3" -> 3
      [] d = "30" -> 30 [] OTHER -> 0

\* len() of a word
CharLen(w) == IF w = LongWord THEN 1001 ELSE Len(w)

RECURSIVE JoinedLen(_)
\* len(" ".join(words))
JoinedLen(words) ==
    IF words = << >> THEN 0
    ELSE IF Len(words) = 1 THEN CharLen(words[1])
    ELSE CharLen(words[1]) + 1 + JoinedLen(Tail(words))

\* -------------------------------------------------------- parse_timedelta
\* The units of redbot's TIME_RE in the order the pattern lists them; a match
\* takes the groups in this order, each at most once.
UnitRank(u) ==
    CASE u = "weeks" -> 1 [] u = "days" -> 2 [] u = "hours" -> 3
      [] u = "minutes" -> 4 [] u = "seconds" -> 5 [] OTHER -> 0

UnitSeconds(u) ==
    CASE u = "weeks" -> 604800 [] u = "days" -> 86400 [] u = "hours" -> 3600
      [] u = "minutes" -> 60 [] u = "seconds" -> 1 [] OTHER -> 0

\* The unit a word gives when it follows a digit group and a space: the unit
\* alternatives (weeks?|w, days?|d, hours?|hrs|hr?, minutes?|mins?|m(?!o),
\* seconds?|secs?|s) are matched at the start of the word, case-insensitively.
UnitOf(w) ==
    CASE w \in {"weeks"} -> "weeks"
      [] w \in {"day", "do", "dishes"} -> "days"
      [] w \in {"hours", "hours,"} -> "hours"
      [] w \in {"minutes"} -> "minutes"
      [] w \in {"seconds", "soon"} -> "seconds"
      [] OTHER -> "none"

\* TRUE when the unit alternative consumes the whole word, so that the match
\* can go on with the next group after the following space.
UnitExact(w) == w \in {"weeks", "day", "hours", "minutes", "seconds"}

\* The fragment of a string (a sequence of tokens) that starts at token i:
\* a digit group with its unit, or nothing (n = 0 tokens used).
FragmentAt(s, i) ==
    IF i > Len(s) THEN [used |-> 0, unit |-> "none", value |-> 0, exact |-> FALSE]
    ELSE IF s[i] = "2h"
    THEN [used |-> 1, unit |-> "hours", value |-> 2, exact |-> TRUE]
    ELSE IF s[i] = "1st"
    THEN [used |-> 1, unit |-> "seconds", value |-> 1, exact |-> FALSE]
    ELSE IF IsDigit(s[i]) /\ i + 1 <= Len(s) /\ UnitOf(s[i + 1]) # "none"
    THEN [used |-> 2, unit |-> UnitOf(s[i + 1]), value |-> NumVal(s[i]),
          exact |-> UnitExact(s[i + 1])]
    ELSE [used |-> 0, unit |-> "none", value |-> 0, exact |-> FALSE]

RECURSIVE MatchFrom(_, _, _)
\* TIME_RE.match from token i with the groups of rank > rank still to try:
\* the sequence of [unit, value] the match captures.  Groups are optional, so
\* the match stops (successfully) at the first token no later group takes.
MatchFrom(s, i, rank) ==
    LET f == FragmentAt(s, i) IN
    IF f.used = 0 \/ UnitRank(f.unit) <= rank THEN << >>
    ELSE <<[unit |-> f.unit, value |-> f.value]>>
         \o (IF f.exact THEN MatchFrom(s, i + f.used, UnitRank(f.unit)) ELSE << >>)

RECURSIVE TotalSeconds(_)
\* timedelta(**params).total_seconds()
TotalSeconds(params) ==
    IF params = << >> THEN 0
    ELSE params[1].value * UnitSeconds(params[1].unit) + TotalSeconds(Tail(params))

\* parse_timedelta(argument, minimum=...): kind "none" is the None result,
\* "bad" is commands.BadArgument (the delta is below the minimum), "delta"
\* is a timedelta of the given seconds.  minimum = 0 stands for no minimum.
parse_timedelta(argument, minimum) ==
    LET params == MatchFrom(argument, 1, 0)
        delta == TotalSeconds(params)
    IN  IF params = << >> THEN [kind |-> "none", seconds |-> 0]
        ELSE IF minimum # 0 /\ delta < minimum THEN [kind |-> "bad", seconds |-> delta]
        ELSE [kind |-> "delta", seconds |-> delta]

\* bool() of the result: None and timedelta(0) are false.
Truthy(r) == r.kind = "delta" /\ r.seconds # 0

\* humanize_timedelta(timedelta=...): the label's unit counts.
humanize_timedelta(seconds) ==
    [weeks |-> seconds \div 604800,
     days |-> (seconds % 604800) \div 86400,
     hours |-> (seconds % 86400) \div 3600,
     minutes |-> (seconds % 3600) \div 60,
     seconds |-> seconds % 60]

\* ------------------------------------------- _create_reminder: the parser
\* Locals of the scan loop before its first iteration (lines 212-216).
ScanInit == [time |-> << >>, time_index_start |-> -1, time_index_end |-> -1,
             prev_num |-> "", stopped |-> FALSE]

\* One iteration of "for chunk in full_split" (lines 218-245) on the word at
\* full_split[index]; whitespace chunks change nothing but index.
ScanChunk(st, word, index) ==
    LET chunk == StripNonAlnum(word)
        merged == IF IsAlpha(chunk) /\ st.prev_num # ""
                  THEN <<st.prev_num, chunk>> ELSE <<chunk>>
    IN  IF chunk = "and" /\ st.prev_num = "" THEN st
        ELSE IF IsDigit(chunk)
        THEN [st EXCEPT !.prev_num = chunk,
                        !.time_index_start =
                            IF st.time_index_start = -1 THEN index
                            ELSE st.time_index_start]
        ELSE IF Truthy(parse_timedelta(merged, 0))
        THEN [st EXCEPT !.time = st.time \o merged,
                        !.time_index_start =
                            IF st.time_index_start = -1 THEN index
                            ELSE st.time_index_start,
                        !.time_index_end = index,
                        !.prev_num = ""]
        ELSE IF st.time # << >> THEN [st EXCEPT !.stopped = TRUE]
        ELSE [st EXCEPT !.time_index_start = -1, !.prev_num = ""]

RECURSIVE ScanFrom(_, _, _)
\* The loop from word k on; "break" ends it.
ScanFrom(st, words, k) ==
    IF k > Len(words) \/ st.stopped THEN st
    ELSE ScanFrom(ScanChunk(st, words[k], 2 * (k - 1)), words, k + 1)

\* Length of full_split for a text of these words (one entry, "", when empty).
SplitLen(words) == IF words = << >> THEN 1 ELSE 2 * Len(words) - 1

\* Lines 253-257: time_index_start moved over a preceding "in".
WithPrecedingIn(words, time_index_start) ==
    IF time_index_start > 1
       /\ StripNonAlnum(words[(time_index_start - 2) \div 2 + 1]) = "in"
    THEN time_index_start - 2 ELSE time_index_start

\* Line 259: the time portion is neither at the beginning nor at the end.
TimeInMiddle(words, time_index_start, time_index_end) ==
    time_index_start # 0 /\ time_index_end # SplitLen(words) - 1

\* Lines 263-265: del full_split[max(start - 1, 0) : min(end + 2, len)],
\* given as the words that stay.
DeleteTime(words, time_index_start, time_index_end) ==
    LET lo == IF time_index_start - 1 > 0 THEN time_index_start - 1 ELSE 0
        hi == IF time_index_end + 2 < SplitLen(words)
              THEN time_index_end + 2 ELSE SplitLen(words)
        Keep(k) == 2 * (k - 1) < lo \/ 2 * (k - 1) >= hi
        RECURSIVE Kept(_)
        Kept(k) == IF k > Len(words) THEN << >>
                   ELSE (IF Keep(k) THEN <<words[k]>> ELSE << >>) \o Kept(k + 1)
    IN  Kept(1)

\* Lines 267-268: a leading "to" followed by more text is dropped.
DeleteLeadingTo(words) ==
    IF Len(words) > 1 /\ StripNonAlnum(words[1]) = "to" THEN Tail(words) ELSE words

\* Lines 211-280 of _create_reminder on the stripped command text:
\* status "help" (ctx.send_help), "bad" (BadArgument message), "toolong",
\* or "ok" with the reminder text and the time delta in seconds.
ParseTimeAndText(words) ==
    LET st == ScanFrom(ScanInit, words, 1)
        start == WithPrecedingIn(words, st.time_index_start)
        rest == DeleteLeadingTo(DeleteTime(words, start, st.time_index_end))
        time_delta == parse_timedelta(st.time, MinimumSeconds)
    IN  IF st.time = << >> THEN [status |-> "help", text |-> << >>, seconds |-> 0]
        ELSE IF TimeInMiddle(words, start, st.time_index_end)
        THEN [status |-> "help", text |-> << >>, seconds |-> 0]
        ELSE IF time_delta.kind = "bad"
        THEN [status |-> "bad", text |-> << >>, seconds |-> 0]
        ELSE IF JoinedLen(rest) > MaxTextLen
        THEN [status |-> "toolong", text |-> << >>, seconds |-> 0]
        ELSE [status |-> "ok", text |-> rest, seconds |-> time_delta.seconds]

\* ------------------------------------------------------------------ state
VARIABLES
    store,        \* config.reminders: the list of all users' reminder records
    now,          \* current_time.time(), in seconds
    next_message, \* number of the next command message (gives its jump_url)
    task,         \* per running handler: where it is suspended and its locals
    last,         \* the step just taken: command, arguments and outcome
    listed,       \* what the list command of this step had ready to send
    assigned,     \* per user, every USER_REMINDER_ID a create has stored so far
    serial,       \* TRUE when commands are issued one at a time (never overlapping)
    me_too,       \* the condition of lines 301-305: guild, me_too setting, permission
    me_too_reminders \* self.me_too_reminders: the solicitations open for joining

vars == <<store, now, next_message, task, last, listed, assigned, serial, me_too,
          me_too_reminders>>

\* A handler that is not running.
Idle == [pc |-> "idle", op |-> "", author |-> "", index |-> "", rid |-> 0,
         old |-> << >>, new |-> << >>, reminders |-> << >>]

NoStep == [op |-> "", step |-> "", author |-> "", index |-> "", rid |-> 0,
           raw |-> << >>, result |-> ""]

\* ------------------------------------------------------------ list helpers
Contains(list, x) == \E i \in 1..Len(list) : list[i] = x

\* list.remove(x) on a list that holds x: the first equal element goes.
RemoveFirst(list, x) ==
    LET i == CHOOSE j \in 1..Len(list) :
                 list[j] = x /\ \A k \in 1..(j - 1) : list[k] # x
    IN  SubSeq(list, 1, i - 1) \o SubSeq(list, i + 1, Len(list))

MaxOf(S) == CHOOSE x \in S : \A y \in S : y <= x

\* Variant of get_user_reminders without the selection by user.
get_all_reminders(reminders, user_id) == reminders

\* get_user_reminders(user_id): the user's records, in the order of the list.
get_user_reminders(reminders, user_id) ==
    LET Mine(r) == r.USER_ID = user_id IN SelectSeq(reminders, Mine)

\* get_next_user_reminder_id(reminder_list): max existing id + 1, from 1.
get_next_user_reminder_id(reminder_list) ==
    LET ids == {reminder_list[i].USER_REMINDER_ID : i \in 1..Len(reminder_list)}
    IN  IF ids = {} THEN 1 ELSE MaxOf(ids) + 1

\* Variant of _get_reminder: reminder_id taken as a position in the list.
GetReminderByPosition(reminder_list, reminder_id) ==
    IF reminder_id \in 1..Len(reminder_list) THEN <<reminder_list[reminder_id]>>
    ELSE << >>

\* Variant of _get_reminder: after the loop the loop variable is returned, so
\* a list without the id gives its last record.
GetReminderOrLast(reminder_list, reminder_id) ==
    LET hits == {i \in 1..Len(reminder_list) :
                     reminder_list[i].USER_REMINDER_ID = reminder_id}
    IN  IF reminder_list = << >> THEN << >>
        ELSE IF hits = {} THEN <<reminder_list[Len(reminder_list)]>>
        ELSE <<reminder_list[CHOOSE i \in hits : \A j \in hits : i <= j]>>

\* _get_reminder(reminder_list, reminder_id): the first record with that id,
\* as a one-element sequence, or the empty sequence for None.
_get_reminder(reminder_list, reminder_id) ==
    LET hits == {i \in 1..Len(reminder_list) :
                     reminder_list[i].USER_REMINDER_ID = reminder_id}
    IN  IF hits = {} THEN << >>
        ELSE <<reminder_list[CHOOSE i \in hits : \A j \in hits : i <= j]>>

\* Variant of line 190: len(users_reminders) > maximum
TooManyRemindersOffByOne(users_reminders, maximum) == Len(users_reminders) > maximum

\* Line 190: len(users_reminders) > maximum - 1
TooManyReminders(users_reminders, maximum) == Len(users_reminders) > maximum - 1

\* Variant of lines 285-294: the id is the number of reminders held plus one.
NewReminderIdFromCount(users_reminders, author, text, seconds, clock, jump_url) ==
    [USER_REMINDER_ID |-> Len(users_reminders) + 1,
     USER_ID |-> author,
     REMINDER |-> text,
     FUTURE |-> clock + seconds,
     FUTURE_TEXT |-> humanize_timedelta(seconds),
     JUMP_LINK |-> jump_url]

\* Lines 282-294: the record create builds.
NewReminder(users_reminders, author, text, seconds, clock, jump_url) ==
    [USER_REMINDER_ID |-> get_next_user_reminder_id(users_reminders),
     USER_ID |-> author,
     REMINDER |-> text,
     FUTURE |-> clock + seconds,
     FUTURE_TEXT |-> humanize_timedelta(seconds),
     JUMP_LINK |-> jump_url]

\* Variant of lines 107-112: the new time counted from the old one.
WithNewTimeFromOld(old_reminder, seconds, clock) ==
    [old_reminder EXCEPT !.FUTURE = old_reminder.FUTURE + seconds,
                         !.FUTURE_TEXT = humanize_timedelta(seconds)]

\* Lines 107-112: new_reminder of the time edit.
WithNewTime(old_reminder, seconds, clock) ==
    [old_reminder EXCEPT !.FUTURE = clock + seconds,
                         !.FUTURE_TEXT = humanize_timedelta(seconds)]

\* Variant of lines 135-136: a record built anew from the id and the text,
\* without the copy of the old one.
WithNewTextOnly(old_reminder, text) ==
    [USER_REMINDER_ID |-> old_reminder.USER_REMINDER_ID,
     USER_ID |-> old_reminder.USER_ID,
     REMINDER |-> text,
     FUTURE |-> 0,
     FUTURE_TEXT |-> humanize_timedelta(0),
     JUMP_LINK |-> old_reminder.JUMP_LINK]

\* Lines 135-136: new_reminder of the text edit.
WithNewText(old_reminder, text) == [old_reminder EXCEPT !.REMINDER = text]

\* Variant of lines 113-115 and 137-139 without the remove.
AppendWithoutRemove(current_reminders, old_reminder, new_reminder) ==
    [raised |-> FALSE, value |-> Append(current_reminders, new_reminder)]

\* Lines 113-115 and 137-139: current_reminders.remove(old) then
\* current_reminders.append(new).  remove raises ValueError when no element
\* equals old; the append is then not reached and the list is as it was.
ReplaceReminder(current_reminders, old_reminder, new_reminder) ==
    IF Contains(current_reminders, old_reminder)
    THEN [raised |-> FALSE,
          value |-> Append(RemoveFirst(current_reminders, old_reminder), new_reminder)]
    ELSE [raised |-> TRUE, value |-> current_reminders]

RECURSIVE RemoveEach(_, _)
\* Lines 378-380: the removals of _do_reminder_delete in list order.  The
\* first record that is no longer in the list raises ValueError; the removals
\* made before it stay in the list the context manager writes back.
RemoveEach(current_reminders, reminders) ==
    IF reminders = << >> THEN [raised |-> FALSE, value |-> current_reminders]
    ELSE IF ~Contains(current_reminders, Head(reminders))
    THEN [raised |-> TRUE, value |-> current_reminders]
    ELSE RemoveEach(RemoveFirst(current_reminders, Head(reminders)), Tail(reminders))

\* Line 347: users_reminders[len(users_reminders) - 1]
LastOf(users_reminders) == users_reminders[Len(users_reminders)]

RECURSIVE InsertByFuture(_, _)
InsertByFuture(sorted, r) ==
    IF sorted = << >> THEN <<r>>
    ELSE IF r.FUTURE < Head(sorted).FUTURE THEN <<r>> \o sorted
    ELSE <<Head(sorted)>> \o InsertByFuture(Tail(sorted), r)

\* Variant of line 38: the list is left in the order of the store.
SortByFutureOmitted(to_send) == to_send

RECURSIVE SortByFuture(_)
\* Line 38: to_send.sort(key=FUTURE), a stable sort.
SortByFuture(to_send) ==
    IF to_send = << >> THEN << >>
    ELSE InsertByFuture(SortByFuture(SubSeq(to_send, 1, Len(to_send) - 1)),
                        to_send[Len(to_send)])

\* Line 42: to_send.sort(key=lambda reminder_info: reminder[...]).  The key
\* reads the local "reminder", which is bound only by the loop of line 60, so
\* the first call of the key raises NameError; an empty list calls no key.
SortByIdRaises(to_send) == to_send # << >>

\* int(index) of line 358; 0 stands for ValueError.
IntOfIndex(index) ==
    CASE index = "1" -> 1 [] index = "2" -> 2 [] index = "3" -> 3 [] OTHER -> 0

\* ------------------------------------------------------------------ inputs
\* Command texts given to create.
RawTexts ==
    { <<"in", "2", "hours", "to", "do", "dishes">>,
      <<"do", "dishes">>,
      <<"30", "seconds">>,
      <<"3", "minutes", LongWord>> }

\* ParseTimeAndText of each command text.
Parsed == [raw \in RawTexts |-> ParseTimeAndText(raw)]

\* Time arguments of the time edit.
TimeTexts == { <<"1", "day">>, <<"30", "seconds">>, <<"soon">> }

\* Text arguments of the text edit.
NewTexts == { <<"call", "mom">>, <<LongWord>> }

\* Index arguments of remove.
Indexes == {"all", "last", "1", "2", "x"}

SortKeys == {"time", "added", "id", "soonest"}

ReminderIds == 1..MaxUserReminders

\* The words of the command texts tried exhaustively.
ParseVocabulary == {"in", "to", "and", "2", "3", "hours", "dishes", "mom"}

RECURSIVE WordSeqs(_)
\* Every text of at most n words of ParseVocabulary, the empty text included.
WordSeqs(n) ==
    IF n = 0 THEN {<< >>}
    ELSE LET shorter == WordSeqs(n - 1)
         IN  shorter \cup {Append(t, w) : t \in {x \in shorter : Len(x) = n - 1},
                                           w \in ParseVocabulary}

\* Duration phrases and free texts put together in the orders that the
\* comment of lines 199-209 lists as supported.
DurationPhrases == { <<"2", "hours">>, <<"2", "weeks", "1", "day">> }
FreeTexts == { <<"dishes">>, <<"call", "mom">>, <<"call", "1st", "mom">> }
Forms == 1..8

Arrange(form, D, T) ==
    CASE form = 1 -> <<"in">> \o D \o <<"to">> \o T
      [] form = 2 -> <<"in">> \o D \o T
      [] form = 3 -> D \o <<"to">> \o T
      [] form = 4 -> D \o T
      [] form = 5 -> <<"to">> \o T \o <<"in">> \o D
      [] form = 6 -> <<"to">> \o T \o D
      [] form = 7 -> T \o <<"in">> \o D
      [] OTHER -> T \o D

ParseTexts ==
    WordSeqs(MaxWords)
        \cup {Arrange(form, D, T) : form \in Forms, D \in DurationPhrases, T \in FreeTexts}

\* ------------------------------------------------------------------ set-up
InitCommon ==
    /\ store = << >>
    /\ now = 0
    /\ next_message = 1
    /\ task = [p \in Tasks |-> Idle]
    /\ last = NoStep
    /\ listed = << >>
    /\ assigned = [u \in Users |-> {}]
    /\ me_too_reminders = {}

\* Handlers of different commands may be suspended at the same time.
Init == InitCommon /\ serial = FALSE /\ me_too = FALSE

\* Each command runs to its end before the next one starts.
InitSerial == InitCommon /\ serial = TRUE /\ me_too = FALSE

\* config.reminders holds one reminder of alice that an earlier run of the
\* bot stored: the cog is loaded again and commands may overlap.
KeptReminder ==
    NewReminder(<< >>, "alice", <<"do", "dishes">>, 2 * UnitSeconds("hours"), 0, 0)

InitReloaded ==
    /\ store = <<KeptReminder>>
    /\ now = 0
    /\ next_message = 1
    /\ task = [p \in Tasks |-> Idle]
    /\ last = NoStep
    /\ listed = << >>
    /\ assigned = [u \in Users |-> IF u = "alice" THEN {1} ELSE {}]
    /\ me_too_reminders = {}
    /\ serial = FALSE
    /\ me_too = FALSE

\* Accepted create and modify commands the run may hold.
MessageLimit == IF serial THEN MaxSerialMessages ELSE MaxOverlapMessages

\* A new command can be taken up by handler slot p.
CanBegin(p) ==
    /\ task[p].pc = "idle"
    /\ \A q \in Tasks : task[q].pc = "idle" => p <= q
    /\ serial => \A q \in Tasks : task[q].pc = "idle"

\* The record of a step: the command, the part of its handler that ran
\* ("begin": up to the first suspension or the return, "confirm", "commit":
\* the update of config.reminders), its arguments and what came of it.
Step(op, step, author, index, rid, raw, result) ==
    [op |-> op, step |-> step, author |-> author, index |-> index, rid |-> rid,
     raw |-> raw, result |-> result]

\* ----------------------------------------------------------------- actions
\* list (lines 35-52): read, sort, and either have the reminders ready to
\* send or answer with a message.
ListReminders(author, sort) ==
    LET to_send == get_user_reminders(store, author) IN
    /\ \A q \in Tasks : serial => task[q].pc = "idle"
    /\ listed' = (CASE sort = "time" -> SortByFuture(to_send)
                    [] sort = "added" -> to_send
                    [] OTHER -> << >>)
    /\ last' = Step("list", "begin", author, sort, 0, << >>,
                    CASE sort = "id" /\ SortByIdRaises(to_send) -> "Fault"
                      [] sort \notin {"time", "added", "id"} -> "InvalidSort"
                      [] to_send = << >> -> "NoReminders"
                      [] OTHER -> "Listed")
    /\ UNCHANGED <<store, now, next_message, task, assigned, serial, me_too, me_too_reminders>>

\* _create_reminder up to the record it builds (lines 187-294); parsed is
\* what lines 211-280 make of the command text raw.
CreateReminder(p, author, raw, parsed) ==
    LET users_reminders == get_user_reminders(store, author)
        full == TooManyReminders(users_reminders, MaxUserReminders)
        reminder == NewReminder(users_reminders, author, parsed.text,
                                parsed.seconds, now, next_message)
        accepted == ~full /\ parsed.status = "ok"
    IN
    /\ CanBegin(p)
    /\ accepted => next_message <= MessageLimit
    /\ task' = [task EXCEPT ![p] =
                   IF accepted
                   THEN [Idle EXCEPT !.pc = "append", !.op = "create",
                                     !.author = author, !.new = <<reminder>>]
                   ELSE Idle]
    /\ next_message' = IF accepted THEN next_message + 1 ELSE next_message
    /\ last' = Step("create", "begin", author, "", 0, raw,
                    CASE full -> "QuotaExceeded"
                      [] ~full /\ parsed.status = "help" -> "Help"
                      [] ~full /\ parsed.status = "bad" -> "BadArgument"
                      [] ~full /\ parsed.status = "toolong" -> "TooLong"
                      [] OTHER -> "Pending")
    /\ listed' = << >>
    /\ UNCHANGED <<store, now, assigned, serial, me_too, me_too_reminders>>

\* _create_reminder with one of the command texts of RawTexts.
CreateBegin(p, author, raw) == CreateReminder(p, author, raw, Parsed[raw])

\* Lines 295-305: the append under the config's context manager, the
\* confirmation message and the test whether a solicitation follows.
CreateAppend(p) ==
    LET reminder == task[p].new[1] IN
    /\ task[p].pc = "append"
    /\ store' = Append(store, reminder)
    /\ assigned' = [assigned EXCEPT ![reminder.USER_ID] =
                       @ \cup {reminder.USER_REMINDER_ID}]
    /\ task' = [task EXCEPT ![p] = IF me_too THEN [@ EXCEPT !.pc = "query"] ELSE Idle]
    /\ last' = Step("create", "commit", reminder.USER_ID, "", reminder.USER_REMINDER_ID,
                    << >>, "Ok")
    /\ listed' = << >>
    /\ UNCHANGED <<now, next_message, serial, me_too, me_too_reminders>>

\* Lines 306-309: the solicitation message is sent and the reminder is
\* registered under its id; the number of the command message stands for
\* query.id.  ctx.send raises when the message cannot be sent.
MeTooQuery(p, sent) ==
    LET reminder == task[p].new[1] IN
    /\ task[p].pc = "query"
    /\ me_too_reminders' =
           IF sent
           THEN me_too_reminders \cup {[id |-> reminder.JUMP_LINK, reminder |-> reminder]}
           ELSE me_too_reminders
    /\ task' = [task EXCEPT ![p] = IF sent THEN [@ EXCEPT !.pc = "react"] ELSE Idle]
    /\ last' = Step("create", "query", reminder.USER_ID, "", reminder.USER_REMINDER_ID,
                    << >>, IF sent THEN "Pending" ELSE "Fault")
    /\ listed' = << >>
    /\ UNCHANGED <<store, now, next_message, assigned, serial, me_too>>

\* Line 310: query.add_reaction.  It raises discord.HTTPException (NotFound
\* when the solicitation has been deleted meanwhile, Forbidden, a failed
\* request); nothing catches it, so the handler ends there.
MeTooReact(p, added) ==
    LET reminder == task[p].new[1] IN
    /\ task[p].pc = "react"
    /\ task' = [task EXCEPT ![p] = IF added THEN [@ EXCEPT !.pc = "sleep"] ELSE Idle]
    /\ last' = Step("create", "react", reminder.USER_ID, "", reminder.USER_REMINDER_ID,
                    << >>, IF added THEN "Pending" ELSE "Fault")
    /\ listed' = << >>
    /\ UNCHANGED <<store, now, next_message, assigned, serial, me_too, me_too_reminders>>

\* Line 311: asyncio.sleep(43200) returns, twelve hours after line 310.
MeTooSleep(p) ==
    LET reminder == task[p].new[1] IN
    /\ task[p].pc = "sleep"
    /\ task' = [task EXCEPT ![p] = [@ EXCEPT !.pc = "expire"]]
    /\ last' = Step("create", "sleep", reminder.USER_ID, "", reminder.USER_REMINDER_ID,
                    << >>, "Pending")
    /\ listed' = << >>
    /\ UNCHANGED <<store, now, next_message, assigned, serial, me_too, me_too_reminders>>

\* Lines 312-313: the solicitation message is deleted (pcx_lib.delete, which
\* returns whether or not the message could be deleted) and its entry is
\* taken out of me_too_reminders.
MeTooExpire(p) ==
    LET reminder == task[p].new[1] IN
    /\ task[p].pc = "expire"
    /\ me_too_reminders' = {e \in me_too_reminders : e.id # reminder.JUMP_LINK}
    /\ task' = [task EXCEPT ![p] = Idle]
    /\ last' = Step("create", "expire", reminder.USER_ID, "", reminder.USER_REMINDER_ID,
                    << >>, "Ok")
    /\ listed' = << >>
    /\ UNCHANGED <<store, now, next_message, assigned, serial, me_too>>

\* modify time up to new_reminder (lines 94-112).
TimeBegin(p, author, reminder_id, time) ==
    LET users_reminders == get_user_reminders(store, author)
        old_reminder == _get_reminder(users_reminders, reminder_id)
        time_delta == parse_timedelta(time, MinimumSeconds)
        accepted == old_reminder # << >> /\ Truthy(time_delta)
    IN
    /\ CanBegin(p)
    /\ accepted => next_message <= MessageLimit
    /\ next_message' = IF accepted THEN next_message + 1 ELSE next_message
    /\ task' = [task EXCEPT ![p] =
                   IF accepted
                   THEN [Idle EXCEPT !.pc = "replace", !.op = "time",
                                     !.author = author, !.rid = reminder_id,
                                     !.old = old_reminder,
                                     !.new = <<WithNewTime(old_reminder[1],
                                                           time_delta.seconds, now)>>]
                   ELSE Idle]
    /\ last' = Step("time", "begin", author, "", reminder_id, time,
                    CASE old_reminder = << >> -> "NotFound"
                      [] old_reminder # << >> /\ time_delta.kind = "bad" -> "BadArgument"
                      [] old_reminder # << >> /\ time_delta.kind # "bad"
                             /\ ~Truthy(time_delta) -> "Help"
                      [] OTHER -> "Pending")
    /\ listed' = << >>
    /\ UNCHANGED <<store, now, assigned, serial, me_too, me_too_reminders>>

\* modify text up to new_reminder (lines 125-136).
TextBegin(p, author, reminder_id, text) ==
    LET users_reminders == get_user_reminders(store, author)
        old_reminder == _get_reminder(users_reminders, reminder_id)
        accepted == old_reminder # << >> /\ JoinedLen(text) <= MaxTextLen
    IN
    /\ CanBegin(p)
    /\ accepted => next_message <= MessageLimit
    /\ next_message' = IF accepted THEN next_message + 1 ELSE next_message
    /\ task' = [task EXCEPT ![p] =
                   IF accepted
                   THEN [Idle EXCEPT !.pc = "replace", !.op = "text",
                                     !.author = author, !.rid = reminder_id,
                                     !.old = old_reminder,
                                     !.new = <<WithNewText(old_reminder[1], text)>>]
                   ELSE Idle]
    /\ last' = Step("text", "begin", author, "", reminder_id, << >>,
                    CASE old_reminder = << >> -> "NotFound"
                      [] old_reminder # << >> /\ JoinedLen(text) > MaxTextLen -> "TooLong"
                      [] OTHER -> "Pending")
    /\ listed' = << >>
    /\ UNCHANGED <<store, now, assigned, serial, me_too, me_too_reminders>>

\* Lines 113-115 (time) and 137-139 (text): remove the old record, append
\* the new one.  A ValueError of remove leaves the handler.
EditReplace(p) ==
    LET done == ReplaceReminder(store, task[p].old[1], task[p].new[1]) IN
    /\ task[p].pc = "replace"
    /\ store' = done.value
    /\ task' = [task EXCEPT ![p] = Idle]
    /\ last' = Step(task[p].op, "commit", task[p].author, "", task[p].rid, << >>,
                    IF done.raised THEN "Fault" ELSE "Ok")
    /\ listed' = << >>
    /\ UNCHANGED <<now, next_message, assigned, serial, me_too, me_too_reminders>>

\* _delete_reminder up to the choice of what to delete (lines 315-370).
DeleteBegin(p, author, index) ==
    LET users_reminders == get_user_reminders(store, author)
        int_index == IntOfIndex(index)
        reminder_to_delete == _get_reminder(users_reminders, int_index)
        result == CASE index = "" -> "Nothing"
                    [] index # "" /\ users_reminders = << >> -> "NoReminders"
                    [] users_reminders # << >> /\ index = "all" -> "Confirm"
                    [] users_reminders # << >> /\ index = "last" -> "Pending"
                    [] users_reminders # << >> /\ index \notin {"", "all", "last"}
                           /\ int_index = 0 -> "Help"
                    [] users_reminders # << >> /\ int_index # 0
                           /\ reminder_to_delete = << >> -> "NotFound"
                    [] OTHER -> "Pending"
    IN
    /\ CanBegin(p)
    /\ task' = [task EXCEPT ![p] =
                   CASE result = "Confirm" ->
                            [Idle EXCEPT !.pc = "confirm", !.op = "remove",
                                         !.author = author, !.index = index,
                                         !.reminders = users_reminders]
                     [] result = "Pending" ->
                            [Idle EXCEPT !.pc = "remove", !.op = "remove",
                                         !.author = author, !.index = index,
                                         !.rid = int_index,
                                         !.reminders =
                                             IF index = "last"
                                             THEN <<LastOf(users_reminders)>>
                                             ELSE reminder_to_delete]
                     [] OTHER -> Idle]
    /\ last' = Step("remove", "begin", author, index, int_index, << >>, result)
    /\ listed' = << >>
    /\ UNCHANGED <<store, now, next_message, assigned, serial, me_too, me_too_reminders>>

\* Lines 333-341: the answer to "Are you sure", or the 30 s timeout.
DeleteConfirm(p, yes) ==
    /\ task[p].pc = "confirm"
    /\ task' = [task EXCEPT ![p] = IF yes THEN [@ EXCEPT !.pc = "remove"] ELSE Idle]
    /\ last' = Step("remove", "confirm", task[p].author, "all", 0, << >>,
                    IF yes THEN "Pending" ELSE "LeftAlone")
    /\ listed' = << >>
    /\ UNCHANGED <<store, now, next_message, assigned, serial, me_too, me_too_reminders>>

\* _do_reminder_delete (lines 372-380).
DeleteRemove(p) ==
    LET done == RemoveEach(store, task[p].reminders) IN
    /\ task[p].pc = "remove"
    /\ store' = done.value
    /\ task' = [task EXCEPT ![p] = Idle]
    /\ last' = Step("remove", "commit", task[p].author, task[p].index, task[p].rid, << >>,
                    IF done.raised THEN "Fault" ELSE "Ok")
    /\ listed' = << >>
    /\ UNCHANGED <<now, next_message, assigned, serial, me_too, me_too_reminders>>

\* Time passes.
Tick ==
    /\ now < MaxNow
    /\ now' = now + 1
    /\ last' = Step("tick", "", "", "", 0, << >>, "")
    /\ listed' = << >>
    /\ UNCHANGED <<store, next_message, task, assigned, serial, me_too, me_too_reminders>>

Next ==
    \/ \E author \in Users, sort \in SortKeys : ListReminders(author, sort)
    \/ \E p \in Tasks, author \in Users, raw \in RawTexts : CreateBegin(p, author, raw)
    \/ \E p \in Tasks : CreateAppend(p)
    \/ \E p \in Tasks, author \in Users, id \in ReminderIds, time \in TimeTexts :
           TimeBegin(p, author, id, time)
    \/ \E p \in Tasks, author \in Users, id \in ReminderIds, text \in NewTexts :
           TextBegin(p, author, id, text)
    \/ \E p \in Tasks : EditReplace(p)
    \/ \E p \in Tasks, author \in Users, index \in Indexes : DeleteBegin(p, author, index)
    \/ \E p \in Tasks, yes \in BOOLEAN : DeleteConfirm(p, yes)
    \/ \E p \in Tasks : DeleteRemove(p)
    \/ Tick

Spec == Init /\ [][Next]_vars

\* The first command after the cog is loaded: a create with any text of
\* ParseTexts, parsed on the spot.
CreateFirst(p, author, raw) ==
    /\ last = NoStep
    /\ CreateReminder(p, author, raw, ParseTimeAndText(raw))

NextParse ==
    \/ \E p \in Tasks, author \in Users, raw \in ParseTexts : CreateFirst(p, author, raw)
    \/ \E p \in Tasks : CreateAppend(p)
    \/ Tick

\* The create and remove commands.
NextCreateRemove ==
    \/ \E p \in Tasks, author \in Users, raw \in RawTexts : CreateBegin(p, author, raw)
    \/ \E p \in Tasks : CreateAppend(p)
    \/ \E p \in Tasks, author \in Users, index \in Indexes : DeleteBegin(p, author, index)
    \/ \E p \in Tasks, yes \in BOOLEAN : DeleteConfirm(p, yes)
    \/ \E p \in Tasks : DeleteRemove(p)
    \/ Tick

\* Overlapping create and remove commands on a list that holds a reminder
\* from an earlier run.
SpecReloaded == InitReloaded /\ [][NextCreateRemove]_vars

\* Commands in a guild that has the me_too setting on.
InitMeToo == InitCommon /\ serial = FALSE /\ me_too = TRUE

\* The part of _create_reminder that handler p runs after the append.
MeTooStep(p) ==
    \/ \E sent \in BOOLEAN : MeTooQuery(p, sent)
    \/ \E added \in BOOLEAN : MeTooReact(p, added)
    \/ MeTooSleep(p)
    \/ MeTooExpire(p)

NextMeToo ==
    \/ \E p \in Tasks, author \in Users, raw \in RawTexts : CreateBegin(p, author, raw)
    \/ \E p \in Tasks : CreateAppend(p)
    \/ \E p \in Tasks, sent \in BOOLEAN : MeTooQuery(p, sent)
    \/ \E p \in Tasks, added \in BOOLEAN : MeTooReact(p, added)
    \/ \E p \in Tasks : MeTooSleep(p)
    \/ \E p \in Tasks : MeTooExpire(p)
    \/ \E p \in Tasks, author \in Users, index \in Indexes : DeleteBegin(p, author, index)
    \/ \E p \in Tasks, yes \in BOOLEAN : DeleteConfirm(p, yes)
    \/ \E p \in Tasks : DeleteRemove(p)
    \/ Tick

\* The event loop resumes every handler whose awaited call has finished, so
\* no handler stays for ever before a step of its solicitation that it can
\* take.
SpecMeToo ==
    InitMeToo /\ [][NextMeToo]_vars /\ \A p \in Tasks : WF_vars(MeTooStep(p))

\* One create command, with any text, on an empty reminder list.
SpecParse == InitSerial /\ [][NextParse]_vars

SpecSerial == InitSerial /\ [][Next]_vars

\* ------------------------------------------------------------------ claims
\* Positions of the records of user u in a list.
PositionsOf(list, u) == {i \in 1..Len(list) : list[i].USER_ID = u}

\* The ids user u holds in a list.
IdsOf(list, u) == {list[i].USER_REMINDER_ID : i \in PositionsOf(list, u)}

\* The list without its element at position i.
WithoutPosition(list, i) == SubSeq(list, 1, i - 1) \o SubSeq(list, i + 1, Len(list))

\* No handler was left suspended by the step and the list is as it was.
NothingDone == store' = store /\ task' = task

\* C1: when commands do not overlap, no two reminders of one user in the
\* store have the same USER_REMINDER_ID.
C1_UniqueIdsPerUser ==
    \A i, j \in 1..Len(store) :
        (i # j /\ store[i].USER_ID = store[j].USER_ID)
            => store[i].USER_REMINDER_ID # store[j].USER_REMINDER_ID

\* A user holds two reminders and a text edit of one of them has just run.
C1_Witness ==
    /\ last.op = "text" /\ last.step = "commit" /\ last.result = "Ok"
    /\ Cardinality(PositionsOf(store, last.author)) = 2

\* C2: when two creates of one user overlap, the record a create appends gets
\* an id that no reminder of that user in the store has.
C2_OverlappingCreatesDistinctIds ==
    [][(last'.op = "create" /\ last'.step = "commit")
           => last'.rid \notin IdsOf(store, last'.author)]_vars

C4_QuotaExceededBeforeParsing ==
    [][(/\ last'.op = "create" /\ last'.step = "begin"
        /\ Cardinality(PositionsOf(store, last'.author)) >= MaxUserReminders)
           => (last'.result = "QuotaExceeded" /\ NothingDone)]_vars

\* A create whose text holds no duration was answered with QuotaExceeded.
C4_Witness ==
    /\ last.op = "create" /\ last.result = "QuotaExceeded"
    /\ last.raw = <<"do", "dishes">>
    /\ Cardinality(PositionsOf(store, last.author)) = MaxUserReminders

\* C5: the update of a successful text edit replaces one record of the user
\* with that id by a record that differs from it in REMINDER only, the update
\* of a successful time edit by one that differs in FUTURE and FUTURE_TEXT
\* only; every other record stays, and so do the number of the user's
\* reminders and the set of their ids.
C5_EditChangesOnlyItsField ==
    [][(last'.op \in {"text", "time"} /\ last'.step = "commit" /\ last'.result = "Ok")
           => /\ \E i \in PositionsOf(store, last'.author),
                    j \in PositionsOf(store', last'.author) :
                    /\ store[i].USER_REMINDER_ID = last'.rid
                    /\ store'[j].USER_REMINDER_ID = last'.rid
                    /\ store'[j].JUMP_LINK = store[i].JUMP_LINK
                    /\ last'.op = "text" =>
                           /\ store'[j].FUTURE = store[i].FUTURE
                           /\ store'[j].FUTURE_TEXT = store[i].FUTURE_TEXT
                    /\ last'.op = "time" => store'[j].REMINDER = store[i].REMINDER
                    /\ WithoutPosition(store', j) = WithoutPosition(store, i)
              /\ Cardinality(PositionsOf(store', last'.author))
                     = Cardinality(PositionsOf(store, last'.author))
              /\ IdsOf(store', last'.author) = IdsOf(store, last'.author)]_vars

\* A text edit has put its new text into a record that kept its time.
C5_Witness ==
    /\ last.op = "text" /\ last.step = "commit" /\ last.result = "Ok"
    /\ \E i \in PositionsOf(store, last.author) :
           /\ store[i].USER_REMINDER_ID = last.rid
           /\ store[i].REMINDER = <<"call", "mom">>
           /\ store[i].FUTURE_TEXT.hours = 2

\* C6: a time or text edit with an id the author does not hold answers
\* NotFound and changes nothing.
C6_EditUnknownIdNotFound ==
    [][(/\ last'.op \in {"text", "time"} /\ last'.step = "begin"
        /\ last'.rid \notin IdsOf(store, last'.author))
           => (last'.result = "NotFound" /\ NothingDone)]_vars

\* A time edit was answered NotFound for an id only another user holds.
C6_Witness ==
    /\ last.op = "time" /\ last.result = "NotFound"
    /\ \E u \in Users \ {last.author} : last.rid \in IdsOf(store, u)

\* C7: the update of an edit never faults and always leaves the updated
\* record in the store, also when the old record is no longer there.
C7_ReplaceToleratesMissingOld ==
    [][\A p \in Tasks :
           (task[p].pc = "replace" /\ task'[p].pc = "idle")
               => (last'.result = "Ok" /\ Contains(store', task[p].new[1]))]_vars

\* C8: remove "last" removes the author's reminder created last (the one
\* with the greatest message number) and nothing else.
C8_DeleteLastRemovesMostRecentlyCreated ==
    [][(/\ last'.op = "remove" /\ last'.step = "commit" /\ last'.index = "last"
        /\ last'.result = "Ok")
           => \E i \in PositionsOf(store, last'.author) :
                  /\ \A j \in PositionsOf(store, last'.author) :
                         store[j].JUMP_LINK <= store[i].JUMP_LINK
                  /\ store' = WithoutPosition(store, i)]_vars

\* C9: remove "last" or "all" by an author without reminders answers
\* NoReminders, remove by an id the author does not hold answers NoReminders
\* or NotFound, and both change nothing.
C9_RemoveNothingToDo ==
    [][(last'.op = "remove" /\ last'.step = "begin")
           => /\ (/\ last'.index \in {"last", "all"}
                  /\ PositionsOf(store, last'.author) = {})
                     => (last'.result = "NoReminders" /\ NothingDone)
              /\ (/\ last'.rid # 0
                  /\ last'.rid \notin IdsOf(store, last'.author))
                     => (last'.result \in {"NoReminders", "NotFound"} /\ NothingDone)]_vars

\* remove "last" was answered NoReminders while another user holds reminders.
C9_Witness ==
    /\ last.op = "remove" /\ last.index = "last" /\ last.result = "NoReminders"
    /\ store # << >>

\* C10: list with sort "id" has all of the author's reminders ready to send,
\* in strictly increasing USER_REMINDER_ID order.
C10_ListByIdIncreasing ==
    (last.op = "list" /\ last.index = "id")
        => /\ last.result \in {"Listed", "NoReminders"}
           /\ Len(listed) = Cardinality(PositionsOf(store, last.author))
           /\ \A i \in PositionsOf(store, last.author) : Contains(listed, store[i])
           /\ \A i \in 1..(Len(listed) - 1) :
                  listed[i].USER_REMINDER_ID < listed[i + 1].USER_REMINDER_ID

\* C11: list with sort "time" has all of the author's reminders ready to
\* send, each once, in non-decreasing FUTURE order, and leaves the store as
\* it was.
C11_ListByTimeNonDecreasing ==
    [][(last'.op = "list" /\ last'.index = "time")
           => /\ store' = store
              /\ last'.result \in {"Listed", "NoReminders"}
              /\ Len(listed') = Cardinality(PositionsOf(store, last'.author))
              /\ \A i \in PositionsOf(store, last'.author) : Contains(listed', store[i])
              /\ \A i \in 1..(Len(listed') - 1) :
                     listed'[i].FUTURE <= listed'[i + 1].FUTURE]_vars

\* list by time has put two reminders into an order other than the store's.
C11_Witness ==
    /\ last.op = "list" /\ last.index = "time" /\ last.result = "Listed"
    /\ Len(listed) = 2
    /\ listed # get_user_reminders(store, last.author)

\* ------------------------------------------------- claims about the parser
RECURSIVE PhraseSeconds(_)
\* The duration that a phrase of "<integer> <unit>" fragments states: the sum
\* of its magnitudes times their unit factors.
PhraseSeconds(D) ==
    IF D = << >> THEN 0
    ELSE NumVal(D[1]) * UnitSeconds(UnitOf(D[2])) + PhraseSeconds(SubSeq(D, 3, Len(D)))

\* What the scan of lines 218-245 has accumulated as time after k words.
TimeAfter(words, k) == ScanFrom(ScanInit, SubSeq(words, 1, k), 1).time

\* The words (by position) that the scan has put into the duration phrase: a
\* word at which time grew, and the digit before it when time grew by two.
PhraseTokens(words) ==
    LET Grown(k) == Len(TimeAfter(words, k)) - Len(TimeAfter(words, k - 1))
    IN  {k \in 1..Len(words) : Grown(k) > 0}
            \cup {k - 1 : k \in {j \in 1..Len(words) : Grown(j) = 2}}

PhraseFirst(words) == CHOOSE k \in PhraseTokens(words) : \A j \in PhraseTokens(words) : k <= j
PhraseLast(words) == CHOOSE k \in PhraseTokens(words) : \A j \in PhraseTokens(words) : j <= k

\* An "in" stands immediately before the duration phrase.
InPrecedes(words) ==
    PhraseFirst(words) > 1 /\ StripNonAlnum(words[PhraseFirst(words) - 1]) = "in"

\* The duration phrase, extended by an immediately preceding "in", touches
\* neither the first nor the last word of the text.
PhraseInterior(words) ==
    /\ PhraseTokens(words) # {}
    /\ PhraseFirst(words) - (IF InPrecedes(words) THEN 1 ELSE 0) > 1
    /\ PhraseLast(words) < Len(words)

\* The words of a text outside the positions S, in their order.
WordsOutside(words, S) ==
    LET RECURSIVE From(_)
        From(k) == IF k > Len(words) THEN << >>
                   ELSE (IF k \in S THEN << >> ELSE <<words[k]>>) \o From(k + 1)
    IN  From(1)

\* The texts a command text may leave once its duration phrase (from its
\* first to its last word), at most one "in" immediately before it and at
\* most one leading "to" are taken out.
TextsLeft(words) ==
    LET span == PhraseFirst(words)..PhraseLast(words)
        spans == {span} \cup (IF InPrecedes(words)
                              THEN {span \cup {PhraseFirst(words) - 1}} ELSE {})
        rests == {WordsOutside(words, S) : S \in spans}
    IN  rests \cup {Tail(r) : r \in {x \in rests : x # << >> /\ StripNonAlnum(x[1]) = "to"}}

\* C12: for every duration phrase D and free text T, a create with D and T
\* in any of the eight supported orders is accepted and builds a reminder
\* with text T that is due after the duration D states.
C12_ParsingOrderInvariant ==
    \A form \in Forms, D \in DurationPhrases, T \in FreeTexts :
        (last.op = "create" /\ last.step = "begin" /\ last.raw = Arrange(form, D, T))
            => /\ last.result = "Pending"
               /\ \E p \in Tasks :
                      /\ task[p].pc = "append"
                      /\ task[p].new[1].REMINDER = T
                      /\ task[p].new[1].FUTURE = now + PhraseSeconds(D)

\* C13: a create by a user below the quota whose duration phrase, extended
\* by an immediately preceding "in", touches neither the first nor the last
\* word of the text is answered with the help and changes nothing.
C13_InteriorPhraseRejected ==
    [][(/\ last'.op = "create" /\ last'.step = "begin"
        /\ last'.result # "QuotaExceeded"
        /\ PhraseInterior(last'.raw))
           => (last'.result = "Help" /\ NothingDone)]_vars

\* C20: the text of the reminder an accepted create builds is the command
\* text without its duration phrase, at most one "in" immediately before the
\* phrase and at most one leading "to"; every other word is kept, in order.
C20_ParserLosesNoFreeText ==
    (last.op = "create" /\ last.step = "begin" /\ last.result = "Pending")
        => \E p \in Tasks :
               /\ task[p].pc = "append"
               /\ task[p].new[1].REMINDER \in TextsLeft(last.raw)

\* ------------------------------------------ claims about the command handlers
\* C14: the update of a remove "all" leaves the store either as it was, or
\* without any record of the list the handler read for the author.
C14_DeleteAllRemovesAllOrNone ==
    [][\A p \in Tasks :
           (task[p].pc = "remove" /\ task[p].index = "all" /\ task'[p].pc = "idle")
               => \/ store' = store
                  \/ \A i \in 1..Len(task[p].reminders) :
                         ~Contains(store', task[p].reminders[i])]_vars

\* C16: no user holds more than max_user_reminders reminders in the store.
C16_CapacityLimitHolds ==
    \A u \in Users : Cardinality(PositionsOf(store, u)) <= MaxUserReminders

\* C15: every solicitation registered in me_too_reminders is eventually
\* taken out of it again.
C15_MeTooEntryEventuallyRemoved ==
    \A q \in 1..MaxOverlapMessages :
        (\E e \in me_too_reminders : e.id = q) ~> ~(\E e \in me_too_reminders : e.id = q)

RECURSIVE StatedSeconds(_)
\* The duration a command text states: every integer times the unit named by
\* the word after it.
StatedSeconds(words) ==
    IF Len(words) < 2 THEN 0
    ELSE IF IsDigit(words[1]) /\ UnitExact(words[2])
    THEN NumVal(words[1]) * UnitSeconds(UnitOf(words[2]))
             + StatedSeconds(SubSeq(words, 3, Len(words)))
    ELSE StatedSeconds(Tail(words))

\* C17: a create or a time edit that goes on to write has built a record
\* whose FUTURE is the clock at that moment plus the stated duration, which
\* is at least the minimum; the write puts just that record into the list;
\* and a create or time edit whose duration is below the minimum writes
\* nothing and ends at once.
C17_FutureIsNowPlusDuration ==
    [][/\ \A p \in Tasks :
              LET begun == /\ task[p].pc = "idle"
                           /\ task'[p].pc \in {"append", "replace"}
                           /\ task'[p].op \in {"create", "time"}
                  written == /\ task[p].pc \in {"append", "replace"}
                             /\ task[p].op \in {"create", "time"}
                             /\ task'[p].pc # task[p].pc
              IN  /\ begun =>
                         /\ StatedSeconds(last'.raw) >= MinimumSeconds
                         /\ task'[p].new[1].FUTURE = now + StatedSeconds(last'.raw)
                  /\ written =>
                         \A i \in 1..Len(store') :
                             Contains(store, store'[i]) \/ store'[i] = task[p].new[1]
       /\ (last'.op \in {"create", "time"} /\ last'.step # "commit") => store' = store
       /\ (/\ last'.op \in {"create", "time"}
           /\ last'.step = "begin"
           /\ StatedSeconds(last'.raw) < MinimumSeconds)
              => store' = store /\ task' = task]_vars

\* A time edit made when the clock had advanced has been written: the record
\* is due one day after that moment.
C17_Witness ==
    /\ last.op = "time"
    /\ last.step = "commit"
    /\ last.result = "Ok"
    /\ \E i \in 1..Len(store) :
           /\ store[i].USER_ID = last.author
           /\ store[i].USER_REMINDER_ID = last.rid
           /\ store[i].FUTURE = MaxNow + UnitSeconds("days")

\* The records of the list that carry the user, the id and the FUTURE of r.
SameUserIdFuture(list, r) ==
    {i \in 1..Len(list) : /\ list[i].USER_ID = r.USER_ID
                          /\ list[i].USER_REMINDER_ID = r.USER_REMINDER_ID
                          /\ list[i].FUTURE = r.FUTURE}

\* C18: when a removal has completed, the list holds no record with the
\* user, id and FUTURE of a removed reminder; when a time edit that changed
\* FUTURE has completed, the list holds no record with the user, id and old
\* FUTURE, and exactly one record of that user with that id, which carries
\* the new FUTURE.
C18_NoStaleRecordAfterEditOrDelete ==
    [][\A p \in Tasks :
           /\ (task[p].pc = "remove" /\ task'[p].pc = "idle" /\ last'.result = "Ok")
                 => \A k \in 1..Len(task[p].reminders) :
                        SameUserIdFuture(store', task[p].reminders[k]) = {}
           /\ (/\ task[p].pc = "replace"
               /\ task[p].op = "time"
               /\ task'[p].pc = "idle"
               /\ last'.result = "Ok"
               /\ task[p].new[1].FUTURE # task[p].old[1].FUTURE)
                 => /\ SameUserIdFuture(store', task[p].old[1]) = {}
                    /\ \E i \in 1..Len(store') :
                           /\ store'[i].FUTURE = task[p].new[1].FUTURE
                           /\ \A j \in 1..Len(store') :
                                  (/\ store'[j].USER_ID = task[p].author
                                   /\ store'[j].USER_REMINDER_ID = task[p].rid)
                                      <=> j = i]_vars

\* C19: a step of a command of one user leaves the records of every other
\* user as they are: the same records in the same order.
C19_OtherUsersRecordsUntouched ==
    [][\A b \in Users :
           LET OfB(r) == r.USER_ID = b IN
           last'.author # b => SelectSeq(store', OfB) = SelectSeq(store, OfB)]_vars

\* alice has removed her reminder 1 while bob holds a reminder with id 1.
C19_Witness ==
    /\ last.op = "remove"
    /\ last.step = "commit"
    /\ last.result = "Ok"
    /\ last.author = "alice"
    /\ last.index = "1"
    /\ \E i \in 1..Len(store) :
           store[i].USER_ID = "bob" /\ store[i].USER_REMINDER_ID = 1

====
